---- MODULE Spec2Model ----
(***************************************************************************)
(* Attachment storage of the job application tracker: the blob gateway     *)
(* (api/blob.js), the upload endpoints (api/uploads/*.js), the attachment  *)
(* table behind api/db.js and the client upload routine of src/App.tsx.    *)
(***************************************************************************)
EXTENDS Integers, Sequences, FiniteSets, TLC

VARIABLES
    env,          \* process.env as read by api/blob.js and the handlers
    sdk,          \* which of the two AWS SDK packages loaded at module load
    localFiles,   \* files under public/uploads: set of <<filename, bytes>>
    r2Objects,    \* objects of the R2 bucket: set of <<key, bytes>>
    vercelBlobs,  \* blobs held by the remote blob service: set of <<name, bytes>>
    call,         \* the gateway call made last and what it returned
    dbMock,       \* TRUE iff api/db.js found no connection string (mock DB)
    pgPool,       \* global.__pgPool and the Pool objects of this process
    patches,      \* the PATCH /api/jobs/[id] requests between SELECT and UPDATE
    attachments,  \* rows of the attachments table, in insertion order
    nextAttachId, \* the next id the table assigns
    jobs,         \* the jobs table: its rows and the next id it assigns
    submit,       \* handleSubmit: its position and locals
    client,       \* uploadFileToServer: its position and locals
    http          \* the request served last and its response

vars == <<env, sdk, localFiles, r2Objects, vercelBlobs, call,
          dbMock, pgPool, patches, attachments, nextAttachId, jobs, submit, client, http>>
gatewayVars == <<env, sdk, localFiles, r2Objects, vercelBlobs, call>>
appVars == <<dbMock, pgPool, patches, attachments, nextAttachId, jobs, submit, client, http>>

----------------------------------------------------------------------------
(* Values *)

\* Largest attachment id a run hands out (the serial column is unbounded).
MaxAttach == 2

\* Names of the files a client uploads.
FileNames == {"cv.pdf"}

\* File contents; Len is buffer.length.
Buffers == {<<1>>, <<2, 3>>}

\* A storage filename: `name`, or `<dir>/<name>` when dir > 0 (the relay
\* handler prefixes the attachment id).
Fn(dir, name) == [dir |-> dir, name |-> name]
NoFn == Fn(0, "")
Filenames == {Fn(d, n) : d \in 0..MaxAttach, n \in FileNames}

\* URLs, by how they were built.  kind "local" is the relative path
\* /uploads/<fn>; every other kind is an absolute URL.
Url(kind, fn) == [kind |-> kind, fn |-> fn]
NoUrl == Url("null", NoFn)
\* Keys: "plain" is the filename itself, "uploads" is 'uploads/' + filename.
Key(kind, fn) == [kind |-> kind, fn |-> fn]
NoKey == Key("null", NoFn)
NoSize == 0 - 1

\* What a gateway call hands back: a result object, or a thrown Error.
Result(uploadURL, url, key, size, fallback, site) ==
    [tag |-> "ok", uploadURL |-> uploadURL, url |-> url, key |-> key,
     size |-> size, fallback |-> fallback, site |-> site]
Throw(site) ==
    [tag |-> "throw", uploadURL |-> NoUrl, url |-> NoUrl, key |-> NoKey,
     size |-> NoSize, fallback |-> FALSE, site |-> site]

\* What blob.delete({key, url}) did: the value it returned, the deletes it
\* tried in order, each with its outcome, whether an object left a store,
\* and whether the call repeats the call before it.
NoDel == [key |-> NoKey, url |-> NoUrl, res |-> FALSE, tried |-> <<>>,
          removed |-> FALSE, again |-> FALSE]

\* The record kept of a gateway call; NoCall when none was made.
NoCall == [op |-> "none", filename |-> NoFn, buffer |-> <<>>, uploadUrl |-> NoUrl,
           by |-> "", r2signThrew |-> FALSE, res |-> Throw(""), del |-> NoDel]

\* The three stores as one record, threaded through the gateway functions.
Stores(l, r, v) == [local |-> l, r2 |-> r, vercel |-> v]
PutObj(S, k, b) == {p \in S : p[1] # k} \cup {<<k, b>>}
HasObj(S, k) == \E p \in S : p[1] = k
GetObj(S, k) == (CHOOSE p \in S : p[1] = k)[2]
DelObj(S, k) == {p \in S : p[1] # k}

\* process.env: presence of each variable the code tests for truthiness;
\* BLOB_PROVIDER and ENFORCE_REMOTE_UPLOADS by value ("" is unset).
Providers == {"", "local", "vercel", "remote", "r2", "s3"}
EnforceValues == {"", "true"}
\* NODE_ENV, which api/blob.js never reads: "production" wherever the
\* handlers that test it are not the ones run.
NodeEnvs == {"production", "development"}
AllEnvs ==
    {e \in [R2_ACCESS_KEY_ID : BOOLEAN, R2_SECRET_ACCESS_KEY : BOOLEAN,
            R2_BUCKET : BOOLEAN, R2_PUBLIC_URL_PREFIX : BOOLEAN,
            R2_ENDPOINT : BOOLEAN, R2_ACCOUNT_ID : BOOLEAN,
            BLOB_READ_WRITE_TOKEN : BOOLEAN, BLOB_PROVIDER : Providers,
            ENFORCE_REMOTE_UPLOADS : EnforceValues,
            VERCEL_BLOB_PUBLIC_URL_PREFIX : BOOLEAN,
            VERCEL_BLOB_UPLOAD_URL : BOOLEAN, NODE_ENV : {"production"}] :
        \* R2_ACCOUNT_ID is read only behind `R2_ENDPOINT ||`; neither
        \* changes a URL once R2_PUBLIC_URL_PREFIX is set, and neither is
        \* read without the three credentials.
        /\ e.R2_ENDPOINT => ~e.R2_ACCOUNT_ID
        /\ e.R2_PUBLIC_URL_PREFIX => ~(e.R2_ENDPOINT \/ e.R2_ACCOUNT_ID)
        /\ (e.R2_ENDPOINT \/ e.R2_ACCOUNT_ID)
              => (e.R2_ACCESS_KEY_ID /\ e.R2_SECRET_ACCESS_KEY /\ e.R2_BUCKET)}

\* The two requires share one try block: '@aws-sdk/client-s3' (S3Client and
\* the commands) loads first, '@aws-sdk/s3-request-presigner' (getSignedUrl)
\* second.
SdkStates == {"none", "client", "full"}

\* Outcomes of the remote calls one gateway call can make.
R2SendOutcomes == {"ok", "fail"}
R2SignOutcomes == {"ok", "throw"}
CreateOutcomes == {"ok_upload", "ok_url", "ok_empty", "not_ok", "throw"}
PutOutcomes == {"ok_json", "ok", "not_ok", "throw"}
Outcomes == [r2send : R2SendOutcomes, r2sign : R2SignOutcomes,
             create : CreateOutcomes, put : PutOutcomes]
\* save() sends to R2 or talks to the blob service, never both, and signs
\* nothing; createSignedUrl() signs and creates, and moves no bytes.
SaveOutcomes ==
    {o \in Outcomes : /\ o.r2sign = "ok"
                      /\ o.r2send = "ok" \/ (o.create = "ok_upload" /\ o.put = "ok")}
SignOutcomes == {o \in Outcomes : o.r2send = "ok" /\ o.put = "ok"}

\* Outcomes of the deletes blob.delete can try: DeleteObject on R2 (which
\* reports success for a key that names no object, as S3 does), DELETE on
\* the blob service, fs.promises.unlink.
DeleteOutcomes == [r2del : {"ok", "fail"}, vdel : {"ok", "not_ok", "throw"},
                   unlink : {"ok", "throw"}]

----------------------------------------------------------------------------
(* api/blob.js *)

enforce(e) == e.ENFORCE_REMOTE_UPLOADS = "true"
hasR2(e) == e.R2_ACCESS_KEY_ID /\ e.R2_SECRET_ACCESS_KEY /\ e.R2_BUCKET

\* getR2Client: null without S3Client or without the three credentials.
getR2Client(e) == sdk # "none" /\ hasR2(e)

saveLocal(e, st, filename, buffer) ==
    IF filename.dir # 0
    THEN \* only public/uploads itself is created: writeFile into
         \* public/uploads/<dir>/ fails with ENOENT
         [res |-> Throw("enoent"), st |-> st]
    ELSE [res |-> IF e.VERCEL_BLOB_PUBLIC_URL_PREFIX
                  THEN Result(NoUrl, Url("vercel_public", filename),
                              Key("plain", filename), Len(buffer), FALSE, "local")
                  ELSE Result(NoUrl, Url("local", filename),
                              Key("uploads", filename), Len(buffer), FALSE, "local"),
          st |-> [st EXCEPT !.local = PutObj(@, filename, buffer)]]

saveR2(e, st, filename, buffer, o) ==
    IF ~getR2Client(e) THEN [res |-> Throw("r2_not_configured"), st |-> st]
    ELSE IF o.r2send # "ok" THEN [res |-> Throw("r2_send"), st |-> st]
    ELSE [res |-> Result(NoUrl,
                         IF e.R2_PUBLIC_URL_PREFIX THEN Url("r2_public", filename)
                         ELSE IF e.R2_ENDPOINT \/ e.R2_ACCOUNT_ID
                              THEN Url("r2_endpoint", filename)
                              ELSE NoUrl,
                         Key("plain", filename), Len(buffer), FALSE, "r2"),
          st |-> [st EXCEPT !.r2 = PutObj(@, filename, buffer)]]

\* remoteFallback with the local save tried before the public-URL guess.
remoteFallback_localFirst(e, st, filename, buffer, site) ==
    IF filename.dir = 0
    THEN [res |-> Result(NoUrl, Url("local", filename), Key("uploads", filename),
                         Len(buffer), FALSE, site),
          st |-> [st EXCEPT !.local = PutObj(@, filename, buffer)]]
    ELSE [res |-> Result(NoUrl, Url("vercel_public", filename),
                         Key("plain", filename), NoSize, TRUE, site),
          st |-> st]

\* The fallback every non-enforcing failure site of saveRemote takes.
remoteFallback(e, st, filename, buffer, site) ==
    IF e.VERCEL_BLOB_PUBLIC_URL_PREFIX
    THEN [res |-> Result(NoUrl, Url("vercel_public", filename),
                         Key("plain", filename), NoSize, TRUE, site),
          st |-> st]
    ELSE LET l == saveLocal(e, st, filename, buffer)
         IN  [res |-> [l.res EXCEPT !.site = IF l.res.tag = "ok" THEN site ELSE @],
              st |-> l.st]

\* The body of the provider's create response, by outcome.
createBody(o, filename) ==
    CASE o.create = "ok_upload" ->
            Result(Url("signed_put", filename), Url("vercel_public", filename),
                   Key("plain", filename), NoSize, FALSE, "created")
      [] o.create = "ok_url" ->
            Result(NoUrl, Url("signed_put", filename), NoKey, NoSize, FALSE, "created")
      [] OTHER -> Result(NoUrl, NoUrl, NoKey, NoSize, FALSE, "created")

\* fetch(url, {method: 'PUT'}): a relative URL makes fetch throw.
putOutcome(o, url) == IF url.kind = "local" THEN "throw" ELSE o.put

\* Where the bytes of a successful PUT to `url` end up.
putStore(st, url, buffer) ==
    IF url.kind \in {"r2_public", "r2_endpoint", "r2_signed_put"}
    THEN [st EXCEPT !.r2 = PutObj(@, url.fn, buffer)]
    ELSE [st EXCEPT !.vercel = PutObj(@, url.fn, buffer)]

\* remoteUploadUrl with opts.uploadUrl dropped: a URL is always asked for.
remoteUploadUrl_ignoresOption(e, filename, optUploadUrl, o) ==
    LET body == createBody(o, filename)
    IN  IF e.VERCEL_BLOB_UPLOAD_URL THEN Url("env_upload", NoFn)
        ELSE IF ~e.BLOB_READ_WRITE_TOKEN \/ o.create \in {"throw", "not_ok"} THEN NoUrl
        ELSE IF body.uploadURL # NoUrl THEN body.uploadURL ELSE body.url

\* The upload URL saveRemote ends up with (NoUrl when it has none): the
\* caller's, else VERCEL_BLOB_UPLOAD_URL, else the one it asks the
\* provider for.
remoteUploadUrl(e, filename, optUploadUrl, o) ==
    LET given == IF optUploadUrl # NoUrl THEN optUploadUrl
                 ELSE IF e.VERCEL_BLOB_UPLOAD_URL THEN Url("env_upload", NoFn)
                 ELSE NoUrl
        body == createBody(o, filename)
    IN  IF given # NoUrl \/ ~e.BLOB_READ_WRITE_TOKEN THEN given
        ELSE IF o.create \in {"throw", "not_ok"} THEN NoUrl
        ELSE IF body.uploadURL # NoUrl THEN body.uploadURL ELSE body.url

\* Whether saveRemote PUTs to that URL: "none", "ok" or "failed".
remotePut(e, filename, optUploadUrl, o) ==
    LET u == remoteUploadUrl(e, filename, optUploadUrl, o)
    IN  IF u = NoUrl THEN "none"
        ELSE IF putOutcome(o, u) \in {"throw", "not_ok"} THEN "failed" ELSE "ok"

saveRemote(e, st, filename, buffer, optUploadUrl, o) ==
    LET asks == optUploadUrl = NoUrl /\ ~e.VERCEL_BLOB_UPLOAD_URL
                    /\ e.BLOB_READ_WRITE_TOKEN
        uploadUrl == remoteUploadUrl(e, filename, optUploadUrl, o)
    IN  IF asks /\ o.create = "throw" THEN [res |-> Throw("create_threw"), st |-> st]
        ELSE IF asks /\ o.create = "not_ok"
        THEN IF enforce(e) THEN [res |-> Throw("create_failed"), st |-> st]
             ELSE remoteFallback(e, st, filename, buffer, "create_failed")
        ELSE IF asks /\ uploadUrl = NoUrl
        THEN [res |-> Throw("create_no_url"), st |-> st]
        ELSE IF uploadUrl = NoUrl
        THEN IF enforce(e) THEN [res |-> Throw("no_upload_url"), st |-> st]
             ELSE remoteFallback(e, st, filename, buffer, "no_upload_url")
        ELSE IF putOutcome(o, uploadUrl) = "throw"
        THEN IF enforce(e) THEN [res |-> Throw("put_threw"), st |-> st]
             ELSE remoteFallback(e, st, filename, buffer, "put_threw")
        ELSE IF putOutcome(o, uploadUrl) = "not_ok"
        THEN IF enforce(e) THEN [res |-> Throw("put_failed"), st |-> st]
             ELSE remoteFallback(e, st, filename, buffer, "put_failed")
        ELSE [res |-> Result(NoUrl,
                             IF o.put = "ok_json" THEN Url("put_body", uploadUrl.fn)
                             ELSE IF e.VERCEL_BLOB_PUBLIC_URL_PREFIX
                                  THEN Url("vercel_public", filename)
                                  ELSE uploadUrl,
                             IF o.put = "ok_json" THEN Key("put_body", uploadUrl.fn)
                             ELSE Key("plain", filename),
                             Len(buffer), FALSE, "remote"),
              st |-> putStore(st, uploadUrl, buffer)]

\* provider with the token tested before the R2 credentials.
provider_tokenFirst(e) ==
    LET p0 == IF e.BLOB_PROVIDER = "" THEN "local" ELSE e.BLOB_PROVIDER
        p1 == IF e.BLOB_READ_WRITE_TOKEN /\ p0 = "local" THEN "vercel" ELSE p0
    IN  IF hasR2(e) /\ p1 = "local" THEN "r2" ELSE p1

\* save(): the provider it settles on ...
provider(e) ==
    LET p0 == IF e.BLOB_PROVIDER = "" THEN "local" ELSE e.BLOB_PROVIDER
        p1 == IF hasR2(e) THEN "r2" ELSE p0
    IN  IF e.BLOB_READ_WRITE_TOKEN /\ p1 = "local" THEN "vercel" ELSE p1

\* ... and the function that provider dispatches to.
backend(e) ==
    CASE provider(e) = "r2" -> "r2"
      [] provider(e) \in {"vercel", "remote"} -> "remote"
      [] OTHER -> "local"

\* save() returns what the function it dispatches to returns; `by` names it.
save(e, st, filename, buffer, uploadUrl, o) ==
    CASE backend(e) = "r2" ->
            [by |-> "saveR2", put |-> "none"] @@ saveR2(e, st, filename, buffer, o)
      [] backend(e) = "remote" ->
            [by |-> "saveRemote", put |-> remotePut(e, filename, uploadUrl, o)]
                @@ saveRemote(e, st, filename, buffer, uploadUrl, o)
      [] OTHER -> [by |-> "saveLocal", put |-> "none"]
                    @@ saveLocal(e, st, filename, buffer)

createSignedUrlR2(e, filename) ==
    Result(Url("r2_signed_put", filename),
           IF e.R2_PUBLIC_URL_PREFIX THEN Url("r2_public", filename)
           ELSE IF e.R2_ENDPOINT THEN Url("r2_endpoint", filename) ELSE NoUrl,
           Key("plain", filename), NoSize, FALSE, "r2")

\* The {uploadURL: null, ...} object of createSignedUrl's two fallback sites.
signFallback(e, filename, site) ==
    IF e.VERCEL_BLOB_PUBLIC_URL_PREFIX
    THEN Result(NoUrl, Url("vercel_public", filename), Key("plain", filename),
                NoSize, TRUE, site)
    ELSE Result(NoUrl, Url("local", filename), Key("uploads", filename),
                NoSize, TRUE, site)

createSignedUrl(e, filename, o) ==
    IF getR2Client(e) /\ sdk = "full" /\ o.r2sign = "ok"
    THEN createSignedUrlR2(e, filename)
    ELSE IF ~e.BLOB_READ_WRITE_TOKEN
    THEN IF enforce(e) THEN Throw("no_token") ELSE signFallback(e, filename, "no_token")
    ELSE IF o.create = "throw" THEN Throw("create_threw")
    ELSE IF o.create = "not_ok"
    THEN IF enforce(e) THEN Throw("create_failed")
         ELSE signFallback(e, filename, "create_failed")
    ELSE createBody(o, filename)


----------------------------------------------------------------------------
(* api/db.js: the attachments table *)

\* The pools of a process: `ref` is global.__pgPool (0 when unset, else the
\* number of the Pool it holds), `created` counts the Pool objects
\* constructed, `held` is the pools held by the db modules evaluated so far.
NoPool == [ref |-> 0, created |-> 0, held |-> {}]

\* api/db.js evaluated with a connection string, constructing a Pool every
\* time (no more than two, to keep the count finite).
dbRequire_poolPerLoad(p) ==
    IF dbMock THEN p
    ELSE IF p.created < 2
    THEN [ref |-> p.created + 1, created |-> p.created + 1,
          held |-> p.held \cup {p.created + 1}]
    ELSE [p EXCEPT !.held = @ \cup {p.ref}]

\* Evaluating api/db.js: with a connection string the module takes the
\* pool of global.__pgPool, constructing it first when there is none; the
\* mock has no pool.
dbRequire(p) ==
    IF dbMock THEN p
    ELSE IF p.ref = 0
    THEN [ref |-> p.created + 1, created |-> p.created + 1,
          held |-> p.held \cup {p.created + 1}]
    ELSE [p EXCEPT !.held = @ \cup {p.ref}]

\* The PATCH requests of a run, each idle (not yet made), selected (between
\* its SELECT and its UPDATE) or done; none is made at the start.
Patchers == {"p1", "p2"}
NoPatch == [pc |-> "idle"]
NoPatches == [p \in Patchers |-> NoPatch]

\* A row; job_id 0, filename "", NoKey, NoUrl and NoSize stand for NULL.
Row(id, job_id, filename, storage_key, url, size) ==
    [id |-> id, job_id |-> job_id, filename |-> filename,
     storage_key |-> storage_key, url |-> url, size |-> size]
NoRow == Row(0, 0, "", NoKey, NoUrl, NoSize)

\* The world a handler works on: the table and the three stores.
World(att, next, st) == [att |-> att, next |-> next, st |-> st]

\* Largest job id a run hands out.
MaxJobs == 1

\* updated.id of the job whose files the client uploads.
JobId == 1

\* A row of the jobs table: its id and metadata.files, the list of
\* {name, url, id} the client keeps there.
Job(id, files) == [id |-> id, files |-> files]
NoJobs == [rows |-> <<>>, next |-> 1]
OneJob == [rows |-> <<Job(JobId, <<>>)>>, next |-> JobId + 1]
JobLive(jb, id) == \E i \in DOMAIN jb.rows : jb.rows[i].id = id

\* INSERT INTO attachments ... RETURNING *: both the pool and the mock
\* assign the next id and return the new row.  PostgreSQL rejects a NULL
\* filename and a job_id that names no job (migration 003), after the
\* sequence has advanced; the mock stores whatever it is given.
dbInsert(w, job_id, filename, storage_key, url, size) ==
    LET row == Row(w.next, job_id, filename, storage_key, url, size)
        err == ~dbMock /\ (filename = "" \/ (job_id # 0 /\ ~JobLive(jobs, job_id)))
    IN  IF err THEN [err |-> TRUE, row |-> NoRow, w |-> [w EXCEPT !.next = @ + 1]]
        ELSE [err |-> FALSE, row |-> row,
              w |-> [w EXCEPT !.att = Append(@, row), !.next = @ + 1]]

\* SELECT * FROM attachments without its WHERE clause.
dbSelect_everyRow(w, id) ==
    IF dbMock THEN <<>> ELSE w.att

\* SELECT * FROM attachments WHERE id = $1: the mock has no branch for it
\* and answers {rows: [], rowCount: 0}.
dbSelect(w, id) ==
    IF dbMock THEN <<>> ELSE SelectSeq(w.att, LAMBDA r : r.id = id)

\* UPDATE attachments SET storage_key, url, size without its WHERE clause.
dbUpdate_everyRow(w, id, storage_key, url, size) ==
    IF dbMock \/ ~\E i \in DOMAIN w.att : w.att[i].id = id
    THEN [row |-> NoRow, w |-> w]
    ELSE LET i == CHOOSE j \in DOMAIN w.att : w.att[j].id = id
             set(r) == [r EXCEPT !.storage_key = storage_key,
                                 !.url = url, !.size = size]
         IN  [row |-> set(w.att[i]),
              w |-> [w EXCEPT !.att = [j \in DOMAIN @ |-> set(@[j])]]]

\* UPDATE attachments SET storage_key, url, size ... WHERE id RETURNING *:
\* unhandled by the mock, which changes nothing and returns no row.
dbUpdate(w, id, storage_key, url, size) ==
    IF dbMock \/ ~\E i \in DOMAIN w.att : w.att[i].id = id
    THEN [row |-> NoRow, w |-> w]
    ELSE LET i == CHOOSE j \in DOMAIN w.att : w.att[j].id = id
             row == [w.att[i] EXCEPT !.storage_key = storage_key,
                                     !.url = url, !.size = size]
         IN  [row |-> row, w |-> [w EXCEPT !.att[i] = row]]

\* DELETE FROM attachments WHERE id = $1: unhandled by the mock.
dbDelete(w, id) ==
    IF dbMock THEN w
    ELSE [w EXCEPT !.att = SelectSeq(@, LAMBDA r : r.id # id)]

----------------------------------------------------------------------------
(* api/uploads/create.js and api/uploads/index.js *)

\* arrayBufferToBase64 / Buffer.from(s, 'base64'): the text carries the
\* bytes; the text of no bytes is the empty string.
arrayBufferToBase64(buffer) == <<"base64", buffer>>
NoContent == arrayBufferToBase64(<<>>)
bufferFromBase64(text) == text[2]

\* A response: status, the row and the body it carries, the steps the
\* handler took, the bytes a GET delivers, the blob.delete calls made, the
\* `detail` property sent ("" when none), and how many times the handler
\* called res.json, res.end or pipe(res).
Response(status, row, body, events) ==
    [status |-> status, row |-> row, body |-> body, events |-> events,
     bytes |-> <<>>, dels |-> <<>>, detail |-> "", writes |-> 1]

\* POST /api/uploads/create {filename, contentType}
PostUploadsCreate(filename, o) ==
    IF filename = NoFn THEN Response(400, NoRow, Throw("filename required"), <<>>)
    ELSE LET createRes == createSignedUrl(env, filename, o)
         IN  IF createRes.tag = "throw"
             THEN [Response(502, NoRow, createRes, <<>>)
                     EXCEPT !.detail = createRes.site]
             ELSE Response(200, NoRow,
                           IF hasR2(env) THEN [createRes EXCEPT !.uploadURL = NoUrl]
                           ELSE createRes,
                           <<>>)

\* The body of a POST /api/uploads request.
UploadBody(jobId, filename, contentBase64, url, storageKey, size, uploadUrl) ==
    [jobId |-> jobId, filename |-> filename, contentBase64 |-> contentBase64,
     url |-> url, storageKey |-> storageKey, size |-> size, uploadUrl |-> uploadUrl]

NoBody == UploadBody(0, "", NoContent, NoUrl, NoKey, NoSize, NoUrl)

\* urlToSave of the relay: saved.url, or a URL built from the R2 settings.
relayUrlToSave(saved, storageFilename) ==
    IF saved.url # NoUrl THEN saved.url
    ELSE IF hasR2(env) /\ (env.R2_PUBLIC_URL_PREFIX \/ env.R2_ENDPOINT)
    THEN Url("r2_bucket_path",
             IF saved.key # NoKey THEN saved.key.fn ELSE storageFilename)
    ELSE NoUrl

\* POST /api/uploads.  Returns the response, the world after it, and the
\* gateway call it made (NoCall when it made none).
PostUploads(w, body, o) ==
    IF body.url # NoUrl /\ body.storageKey # NoKey
    THEN \* the client already uploaded: insert the metadata as sent
         LET ins == dbInsert(w, body.jobId, body.filename, body.storageKey,
                             body.url, body.size)
         IN  IF ins.err
             THEN [resp |-> Response(500, NoRow, Throw("upload failed"), <<>>),
                   w |-> ins.w, gw |-> NoCall]
             ELSE [resp |-> Response(201, ins.row, Throw(""), <<"insert">>),
                   w |-> ins.w, gw |-> NoCall]
    ELSE IF body.filename = "" \/ body.contentBase64 = NoContent
    THEN [resp |-> Response(400, NoRow, Throw("filename and contentBase64 required"), <<>>),
          w |-> w, gw |-> NoCall]
    ELSE LET buffer == bufferFromBase64(body.contentBase64)
             ins == dbInsert(w, body.jobId, body.filename, NoKey, NoUrl, NoSize)
             storageFilename == Fn(ins.row.id, body.filename)
             sv == save(env, ins.w.st, storageFilename, buffer, body.uploadUrl, o)
             gw == [op |-> "save", filename |-> storageFilename, buffer |-> buffer,
                    uploadUrl |-> body.uploadUrl, by |-> sv.by,
                    r2signThrew |-> FALSE, res |-> sv.res, del |-> NoDel]
             moved == IF sv.put = "none" THEN <<"save">>
                      ELSE IF sv.put = "ok" THEN <<"put">> ELSE <<"put_failed">>
         IN  IF ins.err
             THEN [resp |-> Response(500, NoRow, Throw("db insert failed"), <<>>),
                   w |-> ins.w, gw |-> NoCall]
             ELSE IF sv.res.tag = "throw"
             THEN [resp |-> [Response(502, NoRow, sv.res,
                                      <<"insert">> \o moved \o <<"delete">>)
                               EXCEPT !.detail = sv.res.site],
                   w |-> dbDelete(ins.w, ins.row.id), gw |-> gw]
             ELSE LET saved == sv.res
                      upd == dbUpdate([ins.w EXCEPT !.st = sv.st], ins.row.id,
                                      IF saved.key # NoKey THEN saved.key
                                      ELSE Key("plain", storageFilename),
                                      relayUrlToSave(saved, storageFilename),
                                      IF saved.size # NoSize THEN saved.size
                                      ELSE Len(buffer))
                  IN  [resp |-> Response(201, upd.row, Throw(""),
                                         <<"insert">> \o moved \o <<"update">>),
                       w |-> upd.w, gw |-> gw]

\* What a GET of `url` returns: the bytes stored there, <<>> when nothing is.
Fetch(st, url) ==
    LET S == CASE url.kind = "local" -> st.local
               [] url.kind \in {"vercel_public", "signed_put", "put_body",
                                "env_upload"} -> st.vercel
               [] url.kind \in {"r2_public", "r2_endpoint", "r2_bucket_path",
                                "r2_signed_get", "r2_signed_put"} -> st.r2
               [] OTHER -> {}
    IN  IF HasObj(S, url.fn) THEN GetObj(S, url.fn) ELSE <<>>

\* A URL for the R2 object named by a storage key; only a plain key names
\* the object save() wrote.
r2UrlOfKey(kind, key) ==
    IF key.kind = "plain" THEN Url(kind, key.fn) ELSE Url("r2_no_such_key", key.fn)

\* deleteBlob that unlinks the local file whatever the provider delete did.
deleteBlob_alsoLocal(e, st, key, url, o) ==
    LET r2try == hasR2(e) /\ key # NoKey /\ getR2Client(e)
        r2ok == r2try /\ o.r2del = "ok"
        vtry == ~r2ok /\ e.BLOB_READ_WRITE_TOKEN /\ key # NoKey
        vok == vtry /\ o.vdel = "ok"
        ltry == url.kind = "local" /\ HasObj(st.local, url.fn)
        lok == ltry /\ o.unlink = "ok"
    IN  [res |-> r2ok \/ vok \/ lok,
         tried |-> (IF r2try THEN <<<<"r2", o.r2del>>>> ELSE <<>>)
                   \o (IF vtry THEN <<<<"vercel", o.vdel>>>> ELSE <<>>)
                   \o (IF ltry THEN <<<<"local", o.unlink>>>> ELSE <<>>),
         st |-> [st EXCEPT !.local = IF lok THEN DelObj(@, url.fn) ELSE @]]

\* blob.delete({key, url}).  Every attempt sits in its own try/catch, so
\* the call returns true or false and never throws.
deleteBlob(e, st, key, url, o) ==
    LET r2try == hasR2(e) /\ key # NoKey /\ getR2Client(e)
        r2ok == r2try /\ o.r2del = "ok"
        vtry == ~r2ok /\ e.BLOB_READ_WRITE_TOKEN /\ key # NoKey
        vok == vtry /\ o.vdel = "ok"
        ltry == ~r2ok /\ ~vok /\ url.kind = "local" /\ HasObj(st.local, url.fn)
        lok == ltry /\ o.unlink = "ok"
        named == IF key.kind = "plain" THEN {key.fn} ELSE {}
    IN  [res |-> r2ok \/ vok \/ lok,
         tried |-> (IF r2try THEN <<<<"r2", o.r2del>>>> ELSE <<>>)
                   \o (IF vtry THEN <<<<"vercel", o.vdel>>>> ELSE <<>>)
                   \o (IF ltry THEN <<<<"local", o.unlink>>>> ELSE <<>>),
         st |-> [local |-> IF lok THEN DelObj(st.local, url.fn) ELSE st.local,
                 r2 |-> IF r2ok THEN {p \in st.r2 : p[1] \notin named} ELSE st.r2,
                 vercel |-> IF vok THEN {p \in st.vercel : p[1] \notin named}
                            ELSE st.vercel]]

\* blob.createSignedGetUrl(key): NoUrl stands for null.
createSignedGetUrl(e, key, o) ==
    IF getR2Client(e) /\ sdk = "full" /\ o.r2sign = "ok"
    THEN r2UrlOfKey("r2_signed_get", key)
    ELSE IF e.R2_PUBLIC_URL_PREFIX THEN r2UrlOfKey("r2_public", key)
    ELSE NoUrl

\* blob.getObject(key): the object's bytes; throws without a client.
getObject(e, st, key) ==
    IF ~getR2Client(e) THEN <<>> ELSE Fetch(st, r2UrlOfKey("r2_signed_get", key))

\* GET /api/uploads/[id] that redirects to the stored url before it tries
\* a signed GET.
GetUploadsId_storedUrlFirst(w, id, o) ==
    LET rows == dbSelect(w, id)
        att == rows[1]
        signed == createSignedGetUrl(env, att.storage_key, o)
    IN  IF rows = <<>> THEN Response(404, NoRow, Throw("not found"), <<>>)
        ELSE IF att.url.kind = "local"
        THEN IF HasObj(w.st.local, att.url.fn)
             THEN [Response(200, att, Throw(""), <<"stream">>)
                     EXCEPT !.bytes = Fetch(w.st, att.url)]
             ELSE Response(404, att, Throw("file not found"), <<>>)
        ELSE IF att.url # NoUrl
        THEN [Response(302, att, Throw(""), <<"stored_url">>)
                EXCEPT !.bytes = Fetch(w.st, att.url)]
        ELSE IF att.storage_key # NoKey /\ signed # NoUrl
        THEN [Response(302, att, Throw(""), <<"signed">>)
                EXCEPT !.bytes = Fetch(w.st, signed)]
        ELSE Response(404, att, Throw("no file URL available"), <<>>)

\* GET /api/uploads/[id]; a 302 is followed to the bytes behind it.
GetUploadsId(w, id, o) ==
    LET rows == dbSelect(w, id)
        att == rows[1]
        signed == createSignedGetUrl(env, att.storage_key, o)
    IN  IF rows = <<>> THEN Response(404, NoRow, Throw("not found"), <<>>)
        ELSE IF att.url.kind = "local"
        THEN IF HasObj(w.st.local, att.url.fn)
             THEN [Response(200, att, Throw(""), <<"stream">>)
                     EXCEPT !.bytes = Fetch(w.st, att.url)]
             ELSE Response(404, att, Throw("file not found"), <<>>)
        ELSE IF att.storage_key # NoKey /\ signed # NoUrl
        THEN [Response(302, att, Throw(""), <<"signed">>)
                EXCEPT !.bytes = Fetch(w.st, signed)]
        ELSE IF att.url # NoUrl
        THEN [Response(302, att, Throw(""), <<"stored_url">>)
                EXCEPT !.bytes = Fetch(w.st, att.url)]
        ELSE Response(404, att, Throw("no file URL available"), <<>>)

\* What the DELETE handlers meet: whether require('../blob') loaded, and
\* the outcomes of the deletes blob.delete tries.
BlobLoads == {"loaded", "load_failed"}

\* The record a handler keeps of one blob.delete call.
Del(att, d) == [id |-> att.id, key |-> att.storage_key, url |-> att.url,
                res |-> d.res, tried |-> d.tried]

\* DELETE /api/uploads/[id] that keeps the row when blob.delete removed nothing.
DeleteUploadsId_keepsRowOnFailure(w, id, load, o) ==
    LET rows == dbSelect(w, id)
        att == rows[1]
        d == deleteBlob(env, w.st, att.storage_key, att.url, o)
    IN  IF rows = <<>>
        THEN [resp |-> Response(404, NoRow, Throw("not found"), <<>>), w |-> w]
        ELSE IF load = "loaded"
        THEN [resp |-> [Response(200, att, Throw(""), <<"select", "blob.delete", "delete">>)
                          EXCEPT !.dels = <<Del(att, d)>>],
              w |-> IF d.res THEN dbDelete([w EXCEPT !.st = d.st], id) ELSE w]
        ELSE [resp |-> Response(200, att, Throw(""),
                                <<"select", "require_failed", "delete">>),
              w |-> w]

\* DELETE /api/uploads/[id]: look the row up, try the storage delete when
\* the blob helper loaded, delete the row, answer {deleted, id, job_id}.
DeleteUploadsId(w, id, load, o) ==
    LET rows == dbSelect(w, id)
        att == rows[1]
        d == deleteBlob(env, w.st, att.storage_key, att.url, o)
    IN  IF rows = <<>>
        THEN [resp |-> Response(404, NoRow, Throw("not found"), <<>>), w |-> w]
        ELSE IF load = "loaded"
        THEN [resp |-> [Response(200, att, Throw(""), <<"select", "blob.delete", "delete">>)
                          EXCEPT !.dels = <<Del(att, d)>>],
              w |-> dbDelete([w EXCEPT !.st = d.st], id)]
        ELSE [resp |-> Response(200, att, Throw(""),
                                <<"select", "require_failed", "delete">>),
              w |-> dbDelete(w, id)]

----------------------------------------------------------------------------
(* api/jobs/index.js and api/jobs/[id].js *)

\* SELECT * FROM attachments WHERE job_id = $1: the mock has no branch for
\* it and answers no rows.
dbSelectByJob(w, job_id) ==
    IF dbMock THEN <<>> ELSE SelectSeq(w.att, LAMBDA r : r.job_id = job_id)

\* DELETE FROM attachments WHERE job_id = $1: unhandled by the mock.
dbDeleteByJob(w, job_id) ==
    IF dbMock THEN w
    ELSE [w EXCEPT !.att = SelectSeq(@, LAMBDA r : r.job_id # job_id)]

\* DELETE FROM jobs WHERE id = $1.  PostgreSQL sets the job_id of the
\* attachment rows still naming the job to NULL (ON DELETE SET NULL).
dbDeleteJob(w, jb, id) ==
    [jb |-> [jb EXCEPT !.rows = SelectSeq(@, LAMBDA j : j.id # id)],
     w |-> IF dbMock THEN w
           ELSE [w EXCEPT !.att =
                    [i \in DOMAIN @ |->
                        IF @[i].job_id = id THEN [@[i] EXCEPT !.job_id = 0]
                        ELSE @[i]]]]

\* for (const a of atts) blob.delete({key: a.storage_key || a.key, url: a.url})
RECURSIVE deleteEach(_, _, _)
deleteEach(st, atts, os) ==
    IF atts = <<>> THEN [st |-> st, dels |-> <<>>]
    ELSE LET d == deleteBlob(env, st, Head(atts).storage_key, Head(atts).url, Head(os))
             rest == deleteEach(d.st, Tail(atts), Tail(os))
         IN  [st |-> rest.st, dels |-> <<Del(Head(atts), d)>> \o rest.dels]

\* DELETE /api/jobs/[id]: the job's attachment rows are looked up, their
\* blobs deleted one by one when the blob helper loaded, the rows deleted,
\* then the job; `os` holds the outcomes the blob.delete calls meet.
DeleteJobsId(w, jb, id, load, os) ==
    LET atts == dbSelectByJob(w, id)
        each == IF load = "loaded" THEN deleteEach(w.st, atts, os)
                ELSE [st |-> w.st, dels |-> <<>>]
        w1 == dbDeleteByJob([w EXCEPT !.st = each.st], id)
        gone == dbDeleteJob(w1, jb, id)
    IN  [resp |-> [Response(204, NoRow, Throw(""),
                            IF load = "loaded" THEN <<"select", "delete", "delete_job">>
                            ELSE <<"select", "require_failed", "delete", "delete_job">>)
                     EXCEPT !.dels = each.dels],
         w |-> gone.w, jb |-> gone.jb]

\* POST /api/jobs {title, ..., metadata}: the new job gets the next id.
PostJobs(jb, files) ==
    [jb EXCEPT !.rows = Append(@, Job(jb.next, files)), !.next = @ + 1]

\* PATCH /api/jobs/[id] {metadata}: the metadata column is replaced by the
\* value sent; a job that does not exist is left alone.
PatchJobsId(jb, id, files) ==
    [jb EXCEPT !.rows = [i \in DOMAIN @ |->
                            IF @[i].id = id THEN Job(id, files) ELSE @[i]]]

----------------------------------------------------------------------------
(* Gateway calls on their own *)


TypeOK ==
    /\ env \in AllEnvs
    /\ sdk \in SdkStates

InitStores ==
    /\ localFiles = {}
    /\ r2Objects = {}
    /\ vercelBlobs = {}

\* handleSubmit at rest: no job being saved, nothing uploaded.
NoSubmit == [pc |-> "idle", mode |-> "", id |-> 0, had |-> <<>>, updated |-> <<>>,
             uploaded |-> <<>>, shown |-> <<>>]

NoClient ==
    [pc |-> "idle", name |-> "", bytes |-> <<>>, body |-> Throw(""),
     uploadUrl |-> NoUrl, publicUrl |-> NoUrl, storageKey |-> NoKey,
     origin |-> "", puts |-> 0, relays |-> 0, put |-> "", persists |-> 0,
     before |-> <<>>]
NoHttp == [route |-> "", req |-> NoBody, resp |-> Response(0, NoRow, Throw(""), <<>>)]

InitApp ==
    /\ dbMock \in BOOLEAN
    /\ pgPool = NoPool
    /\ patches = NoPatches
    /\ attachments = <<>>
    /\ nextAttachId = 1
    /\ jobs = OneJob
    /\ client = NoClient
    /\ submit = [NoSubmit EXCEPT !.pc = "uploading", !.mode = "edit", !.id = JobId]
    /\ http = NoHttp

InitGateway ==
    /\ env \in AllEnvs
    /\ sdk \in SdkStates
    /\ InitStores
    /\ call = NoCall
    /\ dbMock = FALSE
    /\ pgPool = NoPool
    /\ patches = NoPatches
    /\ attachments = <<>>
    /\ nextAttachId = 1
    /\ jobs = NoJobs
    /\ client = NoClient
    /\ submit = NoSubmit
    /\ http = NoHttp

\* The process environment is read afresh by every call; it may change
\* between calls.
SetEnv ==
    /\ call = NoCall
    /\ env' \in AllEnvs
    /\ Cardinality({k \in DOMAIN env : env'[k] # env[k]}) = 1
    /\ UNCHANGED <<sdk, localFiles, r2Objects, vercelBlobs, call>>
    /\ UNCHANGED appVars

CallSave ==
    /\ call = NoCall
    /\ \E filename \in Filenames, buffer \in Buffers, o \in SaveOutcomes,
          uploadUrl \in {NoUrl, Url("signed_put", Fn(0, "cv.pdf"))} :
          \E r \in {save(env, Stores(localFiles, r2Objects, vercelBlobs),
                          filename, buffer, uploadUrl, o)} :
              /\ call' = [op |-> "save", filename |-> filename, buffer |-> buffer,
                          uploadUrl |-> uploadUrl, by |-> r.by,
                          r2signThrew |-> FALSE, res |-> r.res,
                          del |-> NoDel]
              /\ localFiles' = r.st.local
              /\ r2Objects' = r.st.r2
              /\ vercelBlobs' = r.st.vercel
    /\ UNCHANGED <<env, sdk>>
    /\ UNCHANGED appVars

CallCreateSignedUrl ==
    /\ call = NoCall
    /\ \E filename \in Filenames, o \in SignOutcomes :
          call' = [op |-> "createSignedUrl", filename |-> filename,
                   buffer |-> <<>>, uploadUrl |-> NoUrl, by |-> "createSignedUrl",
                   r2signThrew |-> getR2Client(env) /\ sdk = "full" /\ o.r2sign = "throw",
                   res |-> createSignedUrl(env, filename, o), del |-> NoDel]
    /\ UNCHANGED <<env, sdk, localFiles, r2Objects, vercelBlobs>>
    /\ UNCHANGED appVars

\* Storage keys a caller may hold: the filename, or 'uploads/' + filename.
StorageKeys == {Key(k, fn) : k \in {"plain", "uploads"}, fn \in Filenames}

\* The record of blob.createSignedGetUrl(key); a null return has tag "null".
SignedGetCall(e, key, o) ==
    LET u == createSignedGetUrl(e, key, o)
    IN  [op |-> "createSignedGetUrl", filename |-> key.fn, buffer |-> <<>>,
         uploadUrl |-> NoUrl, by |-> "createSignedGetUrl",
         r2signThrew |-> getR2Client(e) /\ sdk = "full" /\ o.r2sign = "throw",
         res |-> IF u = NoUrl THEN [Throw("") EXCEPT !.tag = "null"]
                 ELSE Result(NoUrl, u, key, NoSize, FALSE, ""),
         del |-> NoDel]

CallCreateSignedGetUrl ==
    /\ call = NoCall
    /\ \E key \in StorageKeys, o \in SignOutcomes :
          \E c \in {SignedGetCall(env, key, o)} : call' = c
    /\ UNCHANGED <<env, sdk, localFiles, r2Objects, vercelBlobs>>
    /\ UNCHANGED appVars

NextGateway == SetEnv \/ CallSave \/ CallCreateSignedUrl \/ CallCreateSignedGetUrl

SpecGateway == InitGateway /\ [][NextGateway]_vars

----------------------------------------------------------------------------
(* The application: src/App.tsx uploadFileToServer against the handlers *)

\* Deployments the application is run in: BLOB_PROVIDER and
\* VERCEL_BLOB_UPLOAD_URL unset, the R2 credentials all set or all unset.
Deployments ==
    {e \in AllEnvs :
        /\ e.BLOB_PROVIDER = "" /\ ~e.VERCEL_BLOB_UPLOAD_URL /\ ~e.R2_ACCOUNT_ID
        /\ e.R2_ACCESS_KEY_ID = e.R2_BUCKET /\ e.R2_SECRET_ACCESS_KEY = e.R2_BUCKET}

Init ==
    /\ env \in Deployments
    /\ sdk \in SdkStates
    /\ InitStores
    /\ call = NoCall
    /\ InitApp

TheWorld == World(attachments, nextAttachId, Stores(localFiles, r2Objects, vercelBlobs))

\* The state after a handler ran.
Served(route, body, r) ==
    /\ http' = [route |-> route, req |-> body, resp |-> r.resp]
    /\ attachments' = r.w.att
    /\ nextAttachId' = r.w.next
    /\ localFiles' = r.w.st.local
    /\ r2Objects' = r.w.st.r2
    /\ vercelBlobs' = r.w.st.vercel
    /\ UNCHANGED <<call, jobs>>

\* 1) fetch('/api/uploads/create'); the locals uploadUrl, publicUrl and
\* storageKey are read off the response body.
ClientNegotiate ==
    /\ submit.pc = "uploading"
    /\ client.pc = "idle"
    /\ nextAttachId <= MaxAttach
    /\ \E name \in FileNames, bytes \in Buffers, o \in SignOutcomes :
          \E resp \in {PostUploadsCreate(Fn(0, name), o)} :
          \E b \in {resp.body} :
              /\ http' = [route |-> "POST /api/uploads/create", req |-> NoBody,
                          resp |-> resp]
              /\ client' =
                    IF resp.status # 200
                    THEN [NoClient EXCEPT !.pc = "failed", !.name = name,
                                          !.bytes = bytes, !.before = attachments]
                    ELSE [NoClient EXCEPT
                            !.pc = "negotiated", !.name = name, !.bytes = bytes,
                            !.before = attachments,
                            !.body = b,
                            !.uploadUrl = IF b.uploadURL # NoUrl THEN b.uploadURL
                                          ELSE b.url,
                            !.publicUrl = b.url,
                            !.storageKey = IF b.key # NoKey THEN b.key
                                           ELSE Key("plain", Fn(0, name))]
    /\ UNCHANGED <<gatewayVars, dbMock, pgPool, patches, submit, jobs, attachments, nextAttachId>>

\* ClientRelay with a failed relay followed by the browser's own PUT.
ClientRelay_thenBrowserPut(uploadUrl) ==
    \E o \in SaveOutcomes :
        \E body \in {UploadBody(submit.id, client.name, arrayBufferToBase64(client.bytes),
                                NoUrl, NoKey, NoSize, uploadUrl)} :
        \E r \in {PostUploads(TheWorld, body, o)} :
            /\ Served("POST /api/uploads", body, r)
            /\ client' = [client EXCEPT
                            !.pc = IF r.resp.status = 201 THEN "done" ELSE "put",
                            !.origin = IF uploadUrl = NoUrl THEN "" ELSE "cross",
                            !.relays = @ + 1]

\* The POST of the two server-side branches; `uploadUrl` is NoUrl in the
\* first.  A response that is not ok throws, which ends the upload.
ClientRelay(uploadUrl) ==
    \E o \in SaveOutcomes :
        \E body \in {UploadBody(submit.id, client.name, arrayBufferToBase64(client.bytes),
                                NoUrl, NoKey, NoSize, uploadUrl)} :
        \E r \in {PostUploads(TheWorld, body, o)} :
            /\ Served("POST /api/uploads", body, r)
            /\ client' = [client EXCEPT
                            !.pc = IF r.resp.status = 201 THEN "done" ELSE "failed",
                            !.origin = IF uploadUrl = NoUrl THEN "" ELSE "cross",
                            !.relays = @ + 1]

\* if (!uploadUrl): the server-side upload of the fallback case.
ClientRelayFallback ==
    /\ client.pc = "negotiated"
    /\ client.uploadUrl = NoUrl
    /\ ClientRelay(NoUrl)
    /\ UNCHANGED <<env, sdk, dbMock, pgPool, patches, submit, jobs>>

\* new URL(uploadUrl) throws on a relative URL; the catch rethrows.
ClientUrlThrows ==
    /\ client.pc = "negotiated"
    /\ client.uploadUrl.kind = "local"
    /\ client' = [client EXCEPT !.pc = "failed"]
    /\ UNCHANGED <<gatewayVars, dbMock, pgPool, patches, submit, jobs, attachments, nextAttachId, http>>

\* uploadOrigin !== window.location.origin: the server makes the PUT.
ClientRelayCrossOrigin ==
    /\ client.pc = "negotiated"
    /\ client.uploadUrl.kind \notin {"null", "local"}
    /\ ClientRelay(client.uploadUrl)
    /\ UNCHANGED <<env, sdk, dbMock, pgPool, patches, submit, jobs>>

\* The upload URL has the page's own origin: on to the browser PUT.
ClientSameOrigin ==
    /\ client.pc = "negotiated"
    /\ client.uploadUrl.kind \notin {"null", "local"}
    /\ client' = [client EXCEPT !.pc = "put", !.origin = "same"]
    /\ UNCHANGED <<gatewayVars, dbMock, pgPool, patches, submit, jobs, attachments, nextAttachId, http>>

\* The browser PUT followed by the metadata POST whatever the PUT answered.
ClientPut_persistsAnyway ==
    /\ client.pc = "put"
    /\ \E put \in PutOutcomes :
          LET st == putStore(Stores(localFiles, r2Objects, vercelBlobs),
                             client.uploadUrl, client.bytes)
              ok == put \in {"ok", "ok_json"}
          IN  /\ client' = [client EXCEPT !.pc = "persist",
                                          !.puts = @ + 1,
                                          !.put = IF ok THEN "ok" ELSE "failed"]
              /\ r2Objects' = IF ok THEN st.r2 ELSE r2Objects
              /\ vercelBlobs' = IF ok THEN st.vercel ELSE vercelBlobs
    /\ UNCHANGED <<env, sdk, localFiles, call, dbMock, pgPool, patches, submit, jobs, attachments, nextAttachId, http>>

\* 2) PUT the file to the signed URL from the browser; a response that is
\* not ok throws.
ClientPut ==
    /\ client.pc = "put"
    /\ \E put \in PutOutcomes :
          LET st == putStore(Stores(localFiles, r2Objects, vercelBlobs),
                             client.uploadUrl, client.bytes)
              ok == put \in {"ok", "ok_json"}
          IN  /\ client' = [client EXCEPT !.pc = IF ok THEN "persist" ELSE "failed",
                                          !.puts = @ + 1,
                                          !.put = IF ok THEN "ok" ELSE "failed"]
              /\ r2Objects' = IF ok THEN st.r2 ELSE r2Objects
              /\ vercelBlobs' = IF ok THEN st.vercel ELSE vercelBlobs
    /\ UNCHANGED <<env, sdk, localFiles, call, dbMock, pgPool, patches, submit, jobs, attachments, nextAttachId, http>>

\* 3) POST the metadata to /api/uploads.
ClientPersist ==
    /\ client.pc = "persist"
    /\ \E o \in SaveOutcomes :
          \E body \in {UploadBody(submit.id, client.name, NoContent,
                                  IF client.publicUrl # NoUrl THEN client.publicUrl
                                  ELSE client.uploadUrl,
                                  client.storageKey, Len(client.bytes), NoUrl)} :
          \E r \in {PostUploads(TheWorld, body, o)} :
              /\ Served("POST /api/uploads", body, r)
              /\ client' = [client EXCEPT
                              !.pc = IF r.resp.status = 201 THEN "done" ELSE "failed",
                              !.persists = @ + 1]
    /\ UNCHANGED <<env, sdk, dbMock, pgPool, patches, submit, jobs>>

\* The routine returned or threw; the next file starts a new one.
ClientReturn ==
    /\ client.pc \in {"done", "failed"}
    /\ client' = NoClient
    /\ UNCHANGED <<gatewayVars, dbMock, pgPool, patches, submit, jobs, attachments, nextAttachId, http>>

\* GET /api/uploads/<id> from any caller, between two uploads.
GetUpload ==
    /\ client.pc = "idle"
    /\ \E id \in 1..MaxAttach,
          o \in {x \in SignOutcomes : x.create = "ok_upload"} :
          http' = [route |-> "GET /api/uploads/[id]",
                   req |-> [NoBody EXCEPT !.jobId = id],
                   resp |-> GetUploadsId(TheWorld, id, o)]
    /\ UNCHANGED <<gatewayVars, dbMock, pgPool, patches, submit, jobs, attachments, nextAttachId, client>>

Next ==
    \/ ClientNegotiate
    \/ ClientRelayFallback
    \/ ClientUrlThrows
    \/ ClientRelayCrossOrigin
    \/ ClientSameOrigin
    \/ ClientPut
    \/ ClientPersist
    \/ ClientReturn
    \/ GetUpload

Spec == Init /\ [][Next]_vars

----------------------------------------------------------------------------
(* The handlers of one server process, requests from any caller *)

\* Bodies of POST /api/uploads: with and without filename and bytes, in
\* relay shape and in direct-persist shape (url and storageKey present).
ServerBodies ==
    {UploadBody(j, f, IF direct THEN NoContent ELSE c,
                IF direct THEN Url("r2_public", Fn(0, "cv.pdf")) ELSE NoUrl,
                IF direct THEN Key("plain", Fn(0, "cv.pdf")) ELSE NoKey,
                IF direct THEN 1 ELSE NoSize, NoUrl) :
        j \in 1..MaxJobs, f \in FileNames \cup {""},
        c \in {NoContent, arrayBufferToBase64(<<1>>)}, direct \in BOOLEAN}

\* The outcomes a relay upload can meet in deployment e: of the send to R2
\* with the R2 credentials, of the blob service's calls without.
RelayOutcomes(e) ==
    {o \in SaveOutcomes : IF hasR2(e) THEN o.create = "ok_upload" /\ o.put = "ok"
                          ELSE o.r2send = "ok"}

\* The outcomes that matter to a request: those of the calls it makes.  A
\* POST that is no well-formed relay calls nothing, and neither does a
\* DELETE that finds no row or has no blob helper.
UploadOutcomes(e, body) ==
    IF body.url = NoUrl /\ body.filename # "" /\ body.contentBase64 # NoContent
    THEN RelayOutcomes(e)
    ELSE {[r2send |-> "ok", r2sign |-> "ok", create |-> "ok_upload", put |-> "ok"]}
DeleteReqOutcomes(w, id, load) ==
    IF dbSelect(w, id) = <<>> \/ load # "loaded"
    THEN {[r2del |-> "ok", vdel |-> "ok", unlink |-> "ok"]}
    ELSE DeleteOutcomes

\* The per-attachment outcomes of the blob.delete calls of a job delete.
LoopOutcomes ==
    {o \in DeleteOutcomes : o.vdel # "throw" /\ (o.r2del = "ok") = (o.vdel = "ok")}

\* The deployments the server is run in here: as Deployments, with the
\* public URL of an R2 object taken from R2_PUBLIC_URL_PREFIX when it has
\* one and no public prefix for the blob service.
ServerDeployments ==
    {e \in Deployments : ~e.R2_ENDPOINT /\ ~e.VERCEL_BLOB_PUBLIC_URL_PREFIX}

\* The AWS SDK is used only with the R2 credentials.
InitServer ==
    /\ env \in ServerDeployments
    /\ sdk \in {x \in SdkStates : hasR2(env) \/ x = "full"}
    /\ InitStores
    /\ call = NoCall
    /\ dbMock \in BOOLEAN
    /\ pgPool = NoPool
    /\ patches = NoPatches
    /\ attachments = <<>>
    /\ nextAttachId = 1
    /\ jobs = NoJobs
    /\ client = NoClient
    /\ submit = NoSubmit
    /\ http = NoHttp

\* The id in the path of a request.
IdReq(id) == [NoBody EXCEPT !.jobId = id]

ReqPostJob ==
    /\ jobs.next <= MaxJobs
    /\ jobs' = PostJobs(jobs, <<>>)
    /\ http' = [route |-> "POST /api/jobs", req |-> NoBody,
                resp |-> Response(201, NoRow, Throw(""), <<"insert_job">>)]
    /\ UNCHANGED <<gatewayVars, dbMock, pgPool, patches, submit, attachments, nextAttachId, client>>

ReqPostUpload ==
    /\ nextAttachId <= MaxAttach
    /\ \E body \in ServerBodies :
          \E o \in UploadOutcomes(env, body) :
          \E r \in {PostUploads(TheWorld, body, o)} :
              Served("POST /api/uploads", body, r)
    /\ UNCHANGED <<env, sdk, dbMock, pgPool, patches, submit, client>>

ReqGetUpload ==
    /\ \E id \in 1..MaxAttach,
          o \in {x \in SignOutcomes : x.create = "ok_upload"} :
          http' = [route |-> "GET /api/uploads/[id]", req |-> IdReq(id),
                   resp |-> GetUploadsId(TheWorld, id, o)]
    /\ UNCHANGED <<gatewayVars, dbMock, pgPool, patches, submit, attachments, nextAttachId, jobs, client>>

ReqDeleteUpload ==
    /\ \E id \in 1..MaxAttach, load \in BlobLoads :
          \E o \in DeleteReqOutcomes(TheWorld, id, load) :
          \E r \in {DeleteUploadsId(TheWorld, id, load, o)} :
              Served("DELETE /api/uploads/[id]", IdReq(id), r)
    /\ UNCHANGED <<env, sdk, dbMock, pgPool, patches, submit, client>>

ReqDeleteJob ==
    /\ \E id \in 1..MaxJobs, load \in BlobLoads :
          \E os \in [1..Len(dbSelectByJob(TheWorld, id)) -> LoopOutcomes] :
          \E r \in {DeleteJobsId(TheWorld, jobs, id, load, os)} :
              /\ http' = [route |-> "DELETE /api/jobs/[id]", req |-> IdReq(id),
                          resp |-> r.resp]
              /\ attachments' = r.w.att
              /\ localFiles' = r.w.st.local
              /\ r2Objects' = r.w.st.r2
              /\ vercelBlobs' = r.w.st.vercel
              /\ jobs' = r.jb
    /\ UNCHANGED <<env, sdk, call, dbMock, pgPool, patches, submit, nextAttachId, client>>

NextServer ==
    \/ ReqPostJob
    \/ ReqPostUpload
    \/ ReqGetUpload
    \/ ReqDeleteUpload
    \/ ReqDeleteJob

SpecServer == InitServer /\ [][NextServer]_vars

----------------------------------------------------------------------------
(* dev-server.js: the handlers behind routeApi *)

\* routeApi deletes api/db.js from require.cache before it requires the
\* handler, so every request evaluates api/db.js anew: the mock starts
\* again from empty arrays and ids 1; the pg pool is kept in global.__pgPool.
DevWorld ==
    IF dbMock
    THEN World(<<>>, 1, Stores(localFiles, r2Objects, vercelBlobs))
    ELSE TheWorld
DevJobs == IF dbMock THEN NoJobs ELSE jobs

\* The state after routeApi evicted api/db.js, required the handler anew
\* (which evaluates api/db.js) and the handler served the request.
ServedDev(route, body, r) ==
    /\ http' = [route |-> route, req |-> body, resp |-> r.resp]
    /\ attachments' = r.w.att
    /\ nextAttachId' = r.w.next
    /\ localFiles' = r.w.st.local
    /\ r2Objects' = r.w.st.r2
    /\ vercelBlobs' = r.w.st.vercel
    /\ jobs' = DevJobs
    /\ pgPool' = dbRequire(pgPool)
    /\ UNCHANGED <<env, sdk, call, dbMock, patches, submit, client>>

DevPostJob ==
    /\ DevJobs.next <= MaxJobs
    /\ jobs' = PostJobs(DevJobs, <<>>)
    /\ http' = [route |-> "POST /api/jobs", req |-> NoBody,
                resp |-> Response(201, NoRow, Throw(""), <<"insert_job">>)]
    /\ attachments' = DevWorld.att
    /\ nextAttachId' = DevWorld.next
    /\ pgPool' = dbRequire(pgPool)
    /\ UNCHANGED <<gatewayVars, dbMock, patches, submit, client>>

DevPostUpload ==
    /\ DevWorld.next <= MaxAttach
    /\ \E body \in ServerBodies :
          \E o \in UploadOutcomes(env, body) :
          \E r \in {PostUploads(DevWorld, body, o)} :
              ServedDev("POST /api/uploads", body, r)

DevGetUpload ==
    \E id \in 1..MaxAttach,
       o \in {x \in SignOutcomes : x.create = "ok_upload"} :
       \E resp \in {GetUploadsId(DevWorld, id, o)} :
           ServedDev("GET /api/uploads/[id]", IdReq(id), [resp |-> resp, w |-> DevWorld])

DevDeleteUpload ==
    \E id \in 1..MaxAttach, load \in BlobLoads :
       \E o \in DeleteReqOutcomes(DevWorld, id, load) :
       \E r \in {DeleteUploadsId(DevWorld, id, load, o)} :
           ServedDev("DELETE /api/uploads/[id]", IdReq(id), r)

NextDev ==
    \/ DevPostJob
    \/ DevPostUpload
    \/ DevGetUpload
    \/ DevDeleteUpload

SpecDev == InitServer /\ [][NextDev]_vars

----------------------------------------------------------------------------
(* src/App.tsx handleSubmit: saving a job with at most one new file *)

\* attachments.map(a => ({name: a.filename, url: a.url, id: a.id}))
AttachMeta(a) == [name |-> a.filename, url |-> a.url, id |-> a.id]

\* metadata.files of job `id`.
FilesOf(jb, id) ==
    IF JobLive(jb, id)
    THEN jb.rows[CHOOSE i \in DOMAIN jb.rows : jb.rows[i].id = id].files
    ELSE <<>>

InitSubmit ==
    /\ env \in ServerDeployments
    /\ sdk \in SdkStates
    /\ InitStores
    /\ call = NoCall
    /\ dbMock \in BOOLEAN
    /\ pgPool = NoPool
    /\ patches = NoPatches
    /\ attachments = <<>>
    /\ nextAttachId = 1
    /\ jobs = NoJobs
    /\ submit = NoSubmit
    /\ client = NoClient
    /\ http = NoHttp

\* The create branch: POST /api/jobs with payload.metadata.files = [];
\* without a new file the created job is shown at once.
SubmitCreate ==
    /\ submit.pc = "idle"
    /\ jobs.next <= MaxJobs
    /\ \E newFile \in {b \in BOOLEAN : b => nextAttachId <= MaxAttach} :
          submit' = [NoSubmit EXCEPT !.pc = IF newFile THEN "uploading" ELSE "idle",
                                     !.mode = "create", !.id = jobs.next]
    /\ jobs' = PostJobs(jobs, <<>>)
    /\ http' = [route |-> "POST /api/jobs", req |-> NoBody,
                resp |-> Response(201, NoRow, Throw(""), <<"insert_job">>)]
    /\ UNCHANGED <<gatewayVars, dbMock, pgPool, patches, attachments, nextAttachId, client>>

\* The edit branch: PATCH /api/jobs/<editingId> with the same payload,
\* whose metadata.files is []; `updated` is the job the server returns.
SubmitEdit ==
    /\ submit.pc = "idle"
    /\ \E i \in DOMAIN jobs.rows,
          newFile \in {b \in BOOLEAN : b => nextAttachId <= MaxAttach} :
          \E jb \in {PatchJobsId(jobs, jobs.rows[i].id, <<>>)} :
              /\ jobs' = jb
              /\ submit' = [NoSubmit EXCEPT
                              !.pc = IF newFile THEN "uploading" ELSE "idle",
                              !.mode = "edit", !.id = jobs.rows[i].id,
                              !.had = jobs.rows[i].files,
                              !.updated = FilesOf(jb, jobs.rows[i].id),
                              !.shown = FilesOf(jb, jobs.rows[i].id)]
              /\ http' = [route |-> "PATCH /api/jobs/[id]", req |-> IdReq(jobs.rows[i].id),
                          resp |-> Response(200, NoRow, Throw(""), <<"update_job">>)]
    /\ UNCHANGED <<gatewayVars, dbMock, pgPool, patches, attachments, nextAttachId, client>>

\* After the upload: a failed upload leaves the job as the first request
\* left it; otherwise the new attachment is appended to updated.metadata.files
\* (to nothing in the create branch) and the list is PATCHed to the job.
SubmitAttach ==
    /\ submit.pc = "uploading"
    /\ client.pc \in {"done", "failed"}
    /\ client' = NoClient
    /\ IF client.pc = "failed" \/ http.resp.row = NoRow
       THEN /\ submit' = [submit EXCEPT !.pc = "idle", !.shown = submit.updated]
            /\ UNCHANGED <<jobs, http>>
       ELSE \E mergedFiles \in {submit.updated \o <<AttachMeta(http.resp.row)>>} :
               /\ jobs' = PatchJobsId(jobs, submit.id, mergedFiles)
               /\ submit' = [submit EXCEPT !.pc = "idle",
                                           !.uploaded = <<AttachMeta(http.resp.row)>>,
                                           !.updated = mergedFiles,
                                           !.shown = mergedFiles]
               /\ http' = [route |-> "PATCH /api/jobs/[id]", req |-> IdReq(submit.id),
                           resp |-> Response(200, NoRow, Throw(""), <<"update_job">>)]
    /\ UNCHANGED <<gatewayVars, dbMock, pgPool, patches, attachments, nextAttachId>>

NextSubmit ==
    \/ SubmitCreate
    \/ SubmitEdit
    \/ ClientNegotiate
    \/ ClientRelayFallback
    \/ ClientUrlThrows
    \/ ClientRelayCrossOrigin
    \/ ClientSameOrigin
    \/ ClientPut
    \/ ClientPersist
    \/ SubmitAttach

SpecSubmit == InitSubmit /\ [][NextSubmit]_vars

----------------------------------------------------------------------------
(* blob.delete on what blob.save stored *)

\* The {key, url} pairs blob.delete is called with: the storage_key and url
\* of the attachment saved last, the pair of the delete before (a second
\* delete of the same attachment), or a pair nothing was stored under.
DeleteTargets ==
    IF call.op = "save" /\ call.res.tag = "ok" THEN {<<call.res.key, call.res.url>>}
    ELSE IF call.op = "delete" THEN {<<call.del.key, call.del.url>>}
    ELSE {<<NoKey, NoUrl>>,
          <<Key("uploads", Fn(0, "cv.pdf")), Url("local", Fn(0, "cv.pdf"))>>,
          <<Key("plain", Fn(1, "cv.pdf")), Url("r2_public", Fn(1, "cv.pdf"))>>}

CallDelete ==
    /\ call.op = "delete" => ~call.del.again
    /\ \E o \in DeleteOutcomes, t \in DeleteTargets :
       \E r \in {deleteBlob(env, Stores(localFiles, r2Objects, vercelBlobs),
                             t[1], t[2], o)} :
          /\ call' = [NoCall EXCEPT
                        !.op = "delete",
                        !.del = [key |-> t[1], url |-> t[2], res |-> r.res,
                                 tried |-> r.tried,
                                 removed |-> r.st # Stores(localFiles, r2Objects,
                                                           vercelBlobs),
                                 again |-> call.op = "delete"]]
          /\ localFiles' = r.st.local
          /\ r2Objects' = r.st.r2
          /\ vercelBlobs' = r.st.vercel
    /\ UNCHANGED <<env, sdk>>
    /\ UNCHANGED appVars

InitDelete ==
    /\ env \in Deployments
    /\ sdk \in SdkStates
    /\ InitStores
    /\ call = NoCall
    /\ dbMock = FALSE
    /\ pgPool = NoPool
    /\ patches = NoPatches
    /\ attachments = <<>>
    /\ nextAttachId = 1
    /\ jobs = NoJobs
    /\ client = NoClient
    /\ submit = NoSubmit
    /\ http = NoHttp

NextDelete == CallSave \/ CallDelete

SpecDelete == InitDelete /\ [][NextDelete]_vars

----------------------------------------------------------------------------
(* Claims about the gateway *)

RemoteFailureSites ==
    {"r2_send", "create_threw", "create_failed", "create_no_url",
     "put_threw", "put_failed"}
FallbackSites == {"no_upload_url", "no_token", "create_failed", "put_threw", "put_failed"}

\* C1: with ENFORCE_REMOTE_UPLOADS not 'true', save and createSignedUrl
\* never raise, whatever the credentials and the remote outcome (stated
\* with BLOB_PROVIDER unset, for plain filenames, which the local backend
\* can always write, and leaving aside a create request that itself throws).
C1_NeverRaisesUnenforced ==
    (call.op \in {"save", "createSignedUrl"} /\ ~enforce(env)
        /\ env.BLOB_PROVIDER = "" /\ call.filename.dir = 0
        /\ call.res.site # "create_threw")
    => call.res.tag = "ok"

\* C2: with ENFORCE_REMOTE_UPLOADS = 'true' and remote credentials present,
\* a failed remote call makes save and createSignedUrl raise; no result
\* (guess, local save, or another backend's answer) is returned.
C2_RemoteFailed ==
    call.r2signThrew \/ call.res.site \in RemoteFailureSites
C2_EnforcedFailureRaises ==
    (call.op \in {"save", "createSignedUrl"} /\ enforce(env)
        /\ (hasR2(env) \/ env.BLOB_READ_WRITE_TOKEN) /\ C2_RemoteFailed)
    => call.res.tag = "throw"

\* C3 as stated: for every configuration, save uses R2 when key, secret and
\* bucket are all present, else the remote blob service when a read/write
\* token is present, else local.
C3_PriorityEveryConfig ==
    call.op = "save" =>
        call.by = IF env.R2_ACCESS_KEY_ID /\ env.R2_SECRET_ACCESS_KEY /\ env.R2_BUCKET
                  THEN "saveR2"
                  ELSE IF env.BLOB_READ_WRITE_TOKEN THEN "saveRemote" ELSE "saveLocal"

\* C3 as amended: R2 whenever key, secret and bucket are all present;
\* otherwise, with BLOB_PROVIDER unset or 'local', remote when a token is
\* present and local when not; otherwise the backend BLOB_PROVIDER names
\* ('vercel'/'remote', 'r2'), and local for any other value.  The choice
\* follows the environment as it is at the call.
C3_PriorityWithOverride ==
    call.op = "save" =>
        call.by = IF env.R2_ACCESS_KEY_ID /\ env.R2_SECRET_ACCESS_KEY /\ env.R2_BUCKET
                  THEN "saveR2"
                  ELSE IF env.BLOB_PROVIDER \in {"", "local"}
                  THEN IF env.BLOB_READ_WRITE_TOKEN THEN "saveRemote" ELSE "saveLocal"
                  ELSE IF env.BLOB_PROVIDER \in {"vercel", "remote"} THEN "saveRemote"
                  ELSE IF env.BLOB_PROVIDER = "r2" THEN "saveR2"
                  ELSE "saveLocal"

\* C3 witness: a save made with R2 credentials and a token both present
\* went to R2, and the R2 store holds the bytes.
C3_Witness ==
    /\ call.op = "save" /\ call.by = "saveR2" /\ call.res.tag = "ok"
    /\ hasR2(env) /\ env.BLOB_READ_WRITE_TOKEN /\ env.BLOB_PROVIDER = ""
    /\ <<call.filename, call.buffer>> \in r2Objects

\* C6: a non-enforcing fallback returns the public-URL guess exactly when
\* VERCEL_BLOB_PUBLIC_URL_PREFIX is set (and then stores nothing locally);
\* only without a prefix does it turn to local storage.
C6_FallbackTaken ==
    /\ call.op \in {"save", "createSignedUrl"}
    /\ call.by \in {"saveRemote", "createSignedUrl"}
    /\ \/ call.res.tag = "ok" /\ call.res.site \in FallbackSites
       \/ call.res.tag = "throw" /\ call.res.site = "enoent"
C6_IsGuess ==
    /\ call.res.tag = "ok"
    /\ call.res.url = Url("vercel_public", call.filename)
    /\ call.res.key = Key("plain", call.filename)
    /\ call.res.uploadURL = NoUrl
    /\ localFiles = {}
C6_IsLocal ==
    \/ /\ call.res.tag = "ok"
       /\ call.res.url = Url("local", call.filename)
       /\ call.res.key = Key("uploads", call.filename)
       /\ call.op = "save" => <<call.filename, call.buffer>> \in localFiles
    \/ call.op = "save" /\ call.res.tag = "throw" /\ call.res.site = "enoent"
C6_GuessThenLocal ==
    C6_FallbackTaken =>
        /\ C6_IsGuess <=> env.VERCEL_BLOB_PUBLIC_URL_PREFIX
        /\ C6_IsLocal <=> ~env.VERCEL_BLOB_PUBLIC_URL_PREFIX

\* C6 witnesses: a failed PUT answered by the guess, with a prefix set ...
C6_Witness ==
    /\ call.op = "save" /\ call.res.site = "put_failed" /\ call.res.tag = "ok"
    /\ env.VERCEL_BLOB_PUBLIC_URL_PREFIX /\ C6_IsGuess

\* C14: blob.delete returns true exactly when the delete it tried last
\* succeeded (a provider delete, or the unlink of a local file that
\* existed) and false otherwise, leaving the stores alone; the provider
\* deletes come first (R2, then the blob service, each only with its
\* credentials and a key), nothing is tried after a success, and the local
\* file is touched only for a '/uploads/' url after no provider succeeded.
DeleteRank(name) == CASE name = "r2" -> 1 [] name = "vercel" -> 2 [] OTHER -> 3
C15_SecondDeleteReturnsFalse ==
    (call.op = "delete" /\ call.del.again)
    => (~call.del.res /\ ~call.del.removed)

----------------------------------------------------------------------------
(* Claims about the upload protocol *)

\* The request served last was a relay upload (bytes in the body, no
\* url/storageKey pair), and the bytes it carried.
RelayServed ==
    /\ http.route = "POST /api/uploads"
    /\ http.req.filename # "" /\ http.req.contentBase64 # NoContent
    /\ http.req.url = NoUrl \/ http.req.storageKey = NoKey
RelayBuffer == bufferFromBase64(http.req.contentBase64)
RelayPutMade == \E i \in DOMAIN http.resp.events :
                    http.resp.events[i] \in {"put", "put_failed"}
CurrentStores == Stores(localFiles, r2Objects, vercelBlobs)

\* C4: whatever save() returned a result for can be read back: GET
\* /api/uploads/<id> (whether or not signing succeeds) or getObject on the
\* stored key yields the bytes that were saved.
C4_RoundTrip ==
    (RelayServed /\ http.resp.status = 201 /\ ~dbMock) =>
        \/ \A o \in {x \in SignOutcomes : x.create = "ok_upload"} :
              GetUploadsId(TheWorld, http.resp.row.id, o).bytes = RelayBuffer
        \/ getObject(env, CurrentStores, http.resp.row.storage_key) = RelayBuffer

\* C5: with no remote credentials and enforcement off, blob.save succeeds on
\* the local backend for every filename the handlers pass, '<id>/<filename>'
\* included, and returns url '/uploads/<filename>', key 'uploads/<filename>'
\* and the byte count, having written the bytes.  (SpecGateway)
C5_LocalSaveOfEveryKey ==
    (call.op = "save" /\ ~env.R2_ACCESS_KEY_ID /\ ~env.R2_SECRET_ACCESS_KEY
        /\ ~env.R2_BUCKET /\ ~env.BLOB_READ_WRITE_TOKEN /\ ~enforce(env)
        /\ env.BLOB_PROVIDER \in {"", "local"}
        /\ ~env.VERCEL_BLOB_PUBLIC_URL_PREFIX /\ ~env.VERCEL_BLOB_UPLOAD_URL) =>
        /\ call.res.tag = "ok"
        /\ call.res.url = Url("local", call.filename)
        /\ call.res.key = Key("uploads", call.filename)
        /\ call.res.size = Len(call.buffer)
        /\ <<call.filename, call.buffer>> \in localFiles

\* C7: in the relay with an uploadUrl, a failed server-side PUT is answered
\* with an error, never 201, and the browser makes no PUT of its own.
C7_FailedPutIsAnError ==
    (RelayServed /\ http.req.uploadUrl # NoUrl
        /\ \E i \in DOMAIN http.resp.events : http.resp.events[i] = "put_failed")
    => (http.resp.status # 201 /\ client.puts = 0)

C8_RemoteSelected ==
    /\ ~(env.R2_ACCESS_KEY_ID /\ env.R2_SECRET_ACCESS_KEY /\ env.R2_BUCKET)
    /\ \/ env.BLOB_PROVIDER \in {"vercel", "remote"}
       \/ env.BLOB_PROVIDER \in {"", "local"} /\ env.BLOB_READ_WRITE_TOKEN
C9_CrossOriginNeverPuts ==
    client.origin = "cross" =>
        /\ client.puts = 0 /\ client.relays = 1
        /\ client.pc \in {"done", "failed"}
        /\ http.route = "POST /api/uploads"
        /\ http.req.uploadUrl = client.uploadUrl
        /\ http.req.contentBase64 = arrayBufferToBase64(client.bytes)
        /\ (client.pc = "done") = (http.resp.status = 201)

\* C9 witness: a cross-origin upload whose relay failed, and no PUT followed.
C9_Witness ==
    /\ client.origin = "cross" /\ client.pc = "failed"
    /\ http.resp.status = 502 /\ client.puts = 0

\* C10: when /api/uploads/create answers with no uploadURL but a url and a
\* key, the client sends the bytes through the relay without an upload URL.
C10_FallbackGoesThroughRelay ==
    (client.pc \in {"done", "failed"} /\ client.body.tag = "ok"
        /\ client.body.uploadURL = NoUrl /\ client.body.url # NoUrl
        /\ client.body.key # NoKey)
    => (client.relays = 1 /\ client.puts = 0 /\ http.req.uploadUrl = NoUrl)

\* C11: the client posts the metadata of a file (url, storageKey, size)
\* only after its own PUT of that file was answered ok, and once; after a
\* failed PUT it posts nothing and the table is as it was when the upload
\* began.
C11_PersistOnlyAfterPut ==
    /\ client.persists > 0 =>
          (client.put = "ok" /\ client.puts = 1 /\ client.persists = 1
             /\ client.relays = 0)
    /\ client.put = "failed" =>
          (/\ client.pc = "failed"
           /\ client.persists = 0 /\ client.relays = 0
           /\ attachments = client.before)
    /\ (client.pc \in {"done", "failed"} /\ client.persists = 1) =>
          (/\ http.route = "POST /api/uploads"
           /\ http.req.url # NoUrl /\ http.req.storageKey = client.storageKey
           /\ http.req.size = Len(client.bytes))
    /\ (client.pc = "done" /\ client.persists = 1 /\ ~dbMock) =>
          (/\ Len(attachments) = Len(client.before) + 1
           /\ attachments[Len(attachments)].storage_key = client.storageKey)

\* C11 witness: the browser's PUT failed.
C11_Witness ==
    client.put = "failed" /\ client.origin = "same" /\ client.puts = 1

\* C18: after an edit of a job was saved with a new file, the job's
\* attachment list is the list it had before followed by the new
\* attachment.
C18_EditKeepsAttachments ==
    (submit.pc = "idle" /\ submit.mode = "edit" /\ submit.uploaded # <<>>)
    => (/\ FilesOf(jobs, submit.id) = submit.had \o submit.uploaded
        /\ submit.shown = submit.had \o submit.uploaded)

----------------------------------------------------------------------------
(* Claims about the server's handlers *)

HasId(att, id) == \E i \in DOMAIN att : att[i].id = id
RowOfId(att, id) == att[CHOOSE i \in DOMAIN att : att[i].id = id]
RowsOfJob(att, job_id) == SelectSeq(att, LAMBDA r : r.job_id = job_id)
StoresNow == Stores(localFiles, r2Objects, vercelBlobs)

\* C12: when DELETE /api/uploads/<id> finds the row (the pg database), it
\* answers 200 with the row's id and job_id, has tried the storage delete
\* before deleting the row unless the blob helper failed to load, and the
\* row is gone whatever the storage delete returned; no other row changes.
C12_DeleteStep ==
    (/\ http'.route = "DELETE /api/uploads/[id]"
     /\ ~dbMock
     /\ HasId(attachments, http'.req.jobId))
    => LET id == http'.req.jobId
           att == RowOfId(attachments, id)
           r == http'.resp
       IN  /\ r.status = 200
           /\ r.row.id = att.id /\ r.row.job_id = att.job_id
           /\ \/ /\ r.events = <<"select", "blob.delete", "delete">>
                 /\ Len(r.dels) = 1
                 /\ r.dels[1].key = att.storage_key /\ r.dels[1].url = att.url
              \/ /\ r.events = <<"select", "require_failed", "delete">>
                 /\ r.dels = <<>>
                 /\ StoresNow' = StoresNow
           /\ attachments' = SelectSeq(attachments, LAMBDA x : x.id # id)
C13_JobDeleteStep ==
    (/\ http'.route = "DELETE /api/jobs/[id]"
     /\ JobLive(jobs, http'.req.jobId)
     /\ "require_failed" \notin {http'.resp.events[i] : i \in DOMAIN http'.resp.events})
    => LET id == http'.req.jobId
       IN  /\ Len(http'.resp.dels) = Len(RowsOfJob(attachments, id))
           /\ RowsOfJob(attachments', id) = <<>>
C13_JobDeleteRemovesEveryRow == [][C13_JobDeleteStep]_vars

\* C16: a POST /api/uploads without filename, or without contentBase64
\* and without url and storageKey, is answered 400 and does nothing.
C16_MissingFieldIs400 ==
    (/\ http.route = "POST /api/uploads"
     /\ \/ http.req.filename = ""
        \/ /\ http.req.contentBase64 = NoContent
           /\ ~(http.req.url # NoUrl /\ http.req.storageKey # NoKey))
    => (http.resp.status = 400 /\ http.resp.events = <<>>)

\* C17: GET and DELETE /api/uploads/<id> with an id no row has answer
\* 404, call blob.delete not at all and leave the table and the stores
\* as they were.
C17_UnknownIdStep ==
    (/\ http'.route \in {"GET /api/uploads/[id]", "DELETE /api/uploads/[id]"}
     /\ ~HasId(attachments, http'.req.jobId))
    => (/\ http'.resp.status = 404
        /\ http'.resp.dels = <<>>
        /\ attachments' = attachments
        /\ StoresNow' = StoresNow)
C19_KeyStep ==
    \A i \in DOMAIN attachments :
        HasId(attachments', attachments[i].id)
        => RowOfId(attachments', attachments[i].id).storage_key
              = attachments[i].storage_key
C19_StorageKeyImmutable == [][C19_KeyStep]_vars

\* C19 witness: a second relay upload wrote its own row's key beside a
\* row whose key was set before.
C19_Witness ==
    /\ http.route = "POST /api/uploads"
    /\ http.resp.events = <<"insert", "save", "update">>
    /\ Len(attachments) = 2
    /\ attachments[1].storage_key # NoKey
    /\ attachments[2].storage_key # NoKey
    /\ attachments[1].storage_key # attachments[2].storage_key

----------------------------------------------------------------------------
(* Claims about the dev server *)

\* C20: every insert served by the dev server returns an id that no
\* earlier insert of the process returned: the id it returns is at least
\* the next id the table held before the request.
C20_InsertStep ==
    (/\ http'.route = "POST /api/uploads"
     /\ http'.resp.events # <<>>
     /\ http'.resp.events[1] = "insert")
    => nextAttachId' - 1 >= nextAttachId
C20_IdsNeverReused == [][C20_InsertStep]_vars

----------------------------------------------------------------------------
(* Claims about what the handlers answer *)

\* C21: a POST /api/uploads answered 201 carries the row now in the
\* table: with the id of the insert, a storage_key, and the size of the
\* bytes sent (relay) or the size declared (direct persist).
C21_CreatedRowReturned ==
    (http.route = "POST /api/uploads" /\ http.resp.status = 201)
    => LET row == http.resp.row
       IN  /\ row # NoRow
           /\ HasId(attachments, row.id)
           /\ RowOfId(attachments, row.id) = row
           /\ row.storage_key # NoKey
           /\ row.size = IF http.req.url # NoUrl /\ http.req.storageKey # NoKey
                         THEN http.req.size
                         ELSE Len(bufferFromBase64(http.req.contentBase64))


\* C22: blob.createSignedGetUrl(key) returns a {url, key} result only when
\* the R2 client and the presigner are available and the signing succeeded;
\* in every other configuration it returns null.
C22_SignedGetOnlyFromObjectStore ==
    (call.op = "createSignedGetUrl" /\ call.res.tag = "ok")
    => /\ getR2Client(env)
       /\ sdk = "full"
       /\ ~call.r2signThrew


\* The property names of the JSON object a 200 of POST /api/uploads/create
\* sends: createRes as blob.createSignedUrl built it (a null property is
\* sent, an undefined one is not), less the upload-URL properties the
\* handler deletes when the R2 credentials are set.
createResFields(e, body) ==
    (IF body.url # NoUrl \/ body.site # "created" THEN {"url"} ELSE {})
    \cup (IF body.key # NoKey THEN {"key"} ELSE {})
    \cup (IF body.fallback THEN {"fallback"} ELSE {})
    \cup (IF ~hasR2(e) /\ (body.fallback \/ body.uploadURL # NoUrl)
          THEN {"uploadURL"} ELSE {})

\* C23: every 200 of POST /api/uploads/create has the canonical shape: its
\* properties are among uploadUrl, url and storageKey, and neither a
\* provider's own property name nor the fallback marker is sent.
C23_CanonicalCreateShape ==
    (http.route = "POST /api/uploads/create" /\ http.resp.status = 200)
    => createResFields(env, http.resp.body) \subseteq {"uploadUrl", "url", "storageKey"}

----------------------------------------------------------------------------
(* GET /api/uploads/[id] over rows of every kind *)

\* What a caller posts: metadata to persist directly, with a url under
\* /uploads/ or a public blob URL and either form of storage key, or a file
\* to relay.
GetBodies ==
    {UploadBody(JobId, "cv.pdf", NoContent, Url(u, Fn(0, "cv.pdf")),
                Key(k, Fn(0, "cv.pdf")), 1, NoUrl) :
        u \in {"local", "vercel_public"}, k \in {"plain", "uploads"}}
    \cup {UploadBody(JobId, "cv.pdf", arrayBufferToBase64(<<1>>), NoUrl, NoKey,
                     NoSize, NoUrl)}

InitGet ==
    /\ env \in ServerDeployments
    /\ sdk \in {x \in SdkStates : hasR2(env) \/ x = "full"}
    /\ InitStores
    /\ call = NoCall
    /\ dbMock = FALSE
    /\ pgPool = NoPool
    /\ patches = NoPatches
    /\ attachments = <<>>
    /\ nextAttachId = 1
    /\ jobs = OneJob
    /\ client = NoClient
    /\ submit = NoSubmit
    /\ http = NoHttp

GetPersist ==
    /\ nextAttachId <= MaxAttach
    /\ \E body \in GetBodies :
          \E o \in UploadOutcomes(env, body) :
          \E r \in {PostUploads(TheWorld, body, o)} :
              Served("POST /api/uploads", body, r)
    /\ UNCHANGED <<env, sdk, dbMock, pgPool, patches, submit, client>>

\* GET /api/uploads/[id]; `call` records the blob.createSignedGetUrl call
\* the handler makes for a row that has a storage key and no local url.
GetServe ==
    /\ \E id \in 1..MaxAttach, o \in {x \in SignOutcomes : x.create = "ok_upload"} :
          \E rows \in {dbSelect(TheWorld, id)} :
              /\ http' = [route |-> "GET /api/uploads/[id]", req |-> IdReq(id),
                          resp |-> GetUploadsId(TheWorld, id, o)]
              /\ call' = IF rows # <<>> /\ rows[1].url.kind # "local"
                            /\ rows[1].storage_key # NoKey
                         THEN SignedGetCall(env, rows[1].storage_key, o)
                         ELSE NoCall
    /\ UNCHANGED <<env, sdk, localFiles, r2Objects, vercelBlobs, dbMock, pgPool, patches, submit,
                   attachments, nextAttachId, jobs, client>>

\* blob.save('cv.pdf', bytes) by a caller of the gateway: the file a
\* persisted url or key may name.  No request is being answered.
GetSave ==
    /\ \E o \in RelayOutcomes(env) :
          \E r \in {save(env, Stores(localFiles, r2Objects, vercelBlobs),
                          Fn(0, "cv.pdf"), <<1>>, NoUrl, o)} :
              /\ r.st # Stores(localFiles, r2Objects, vercelBlobs)
              /\ localFiles' = r.st.local
              /\ r2Objects' = r.st.r2
              /\ vercelBlobs' = r.st.vercel
    /\ http' = NoHttp
    /\ UNCHANGED <<env, sdk, call, dbMock, pgPool, patches, attachments, nextAttachId, jobs, submit,
                   client>>

NextGet == GetSave \/ GetPersist \/ GetServe

SpecGet == InitGet /\ [][NextGet]_vars


\* What a GET that found its row is about: the row, whether its url is
\* under /uploads/, whether that file is there, and whether the handler's
\* createSignedGetUrl call returned a URL.
GetFound == http.route = "GET /api/uploads/[id]" /\ http.resp.row # NoRow
GetLocal == http.resp.row.url.kind = "local"
GetFileThere == HasObj(localFiles, http.resp.row.url.fn)
GetSigned == call.op = "createSignedGetUrl" /\ call.res.tag = "ok"

\* The order of preference among the three ways of answering.
GetInOrder ==
    /\ (GetLocal /\ GetFileThere)
          => /\ http.resp.status = 200
             /\ http.resp.events = <<"stream">>
             /\ http.resp.bytes = GetObj(localFiles, http.resp.row.url.fn)
    /\ (~GetLocal /\ GetSigned)
          => http.resp.status = 302 /\ http.resp.events = <<"signed">>
    /\ (~GetLocal /\ ~GetSigned /\ http.resp.row.url # NoUrl)
          => http.resp.status = 302 /\ http.resp.events = <<"stored_url">>

C25_NoDetailInProduction ==
    env.NODE_ENV = "production" => http.resp.detail = ""


\* C26: a process constructs at most one Pool, however often api/db.js is
\* evaluated: every db module evaluated with a connection string holds the
\* pool of global.__pgPool, which is the first and only one constructed.
C26_OnePoolPerProcess ==
    /\ pgPool.created <= 1
    /\ pgPool.held \subseteq {pgPool.ref}
    /\ pgPool.ref = pgPool.created
    /\ (~dbMock /\ http.route # "") => pgPool.held = {1}

\* Two uploads were stored by two requests, each of which evaluated
\* api/db.js anew, and the process has its one pool.
C26_Witness ==
    /\ ~dbMock
    /\ Len(attachments) >= 2
    /\ pgPool.created = 1
    /\ pgPool.held = {1}


\* C27: when BLOB_PROVIDER names a backend, blob.save uses that backend
\* whatever credentials the environment holds.
C27_OverrideAccepted ==
    (call.op = "save" /\ env.BLOB_PROVIDER \in {"local", "vercel", "remote", "r2"})
    => call.by = CASE env.BLOB_PROVIDER = "local" -> "saveLocal"
                   [] env.BLOB_PROVIDER = "r2" -> "saveR2"
                   [] OTHER -> "saveRemote"


\* C28: a relay upload whose blob.save throws is answered 502 and leaves
\* the attachments table as it was: the row inserted before the save is
\* deleted again, under pg and under the mock.
C28_FailedStep ==
    (http'.route = "POST /api/uploads" /\ http'.resp.status = 502)
    => attachments' = attachments
C28_FailedRelayLeavesNoRow == [][C28_FailedStep]_vars

----------------------------------------------------------------------------
(* api/jobs: createJob and PATCH /api/jobs/[id], with the status history *)

\* Values of the status column and of metadata.notes; "" is no notes (or no
\* metadata), Absent a property the request body does not have.
Statuses == {"applied", "interview"}
NoteTexts == {"", "a", "b"}
Absent == "absent"

\* One entry of status_notes, `${dateOnly} | ${status}\n${note}`; the column
\* is its entries joined by '\n---\n', <<>> when it is NULL or undefined.
Entry(status, note) == [status |-> status, note |-> note]

\* A row of the jobs table with its status, metadata.notes and status_notes.
JobRow(id, status, notes, status_notes) ==
    [id |-> id, files |-> <<>>, status |-> status, notes |-> notes,
     status_notes |-> status_notes]

\* The bodies of POST /api/jobs and of PATCH /api/jobs/[id].
CreateBodies ==
    [title : BOOLEAN, status : Statuses \cup {Absent}, notes : NoteTexts,
     contacts : BOOLEAN]
PatchFields == [status : Statuses \cup {Absent}, notes : NoteTexts \cup {Absent}]

\* createJob.  The insert stores status || 'applied' and, under pg, the
\* initial status_notes entry; the mock's insert takes nine parameters and
\* drops status_notes.  With contacts and a contacts column the handler
\* returns after one res.json; otherwise it calls res.json twice, the second
\* call throws (the headers are sent), and the catch block calls it a third
\* time.
createJob(jb, body, fail) ==
    LET status == IF body.status = Absent THEN "applied" ELSE body.status
        row == JobRow(jb.next, status, body.notes,
                      IF dbMock THEN <<>> ELSE <<Entry(status, body.notes)>>)
        ins == [jb EXCEPT !.rows = Append(@, row), !.next = @ + 1]
    IN  IF ~body.title
        THEN [resp |-> Response(400, NoRow, Throw("title is required"), <<>>), jb |-> jb]
        ELSE IF fail
        THEN [resp |-> [Response(500, NoRow, Throw("Failed to create job"), <<>>)
                          EXCEPT !.detail = IF env.NODE_ENV = "production" THEN ""
                                            ELSE "insert_failed"],
              jb |-> jb]
        ELSE IF body.contacts /\ ~dbMock /\ jb.contactsCol
        THEN [resp |-> Response(201, NoRow, Throw(""), <<"insert_job">>), jb |-> ins]
        ELSE [resp |-> [Response(201, NoRow, Throw(""), <<"insert_job">>)
                          EXCEPT !.writes = 3],
              jb |-> ins]

\* SELECT * FROM jobs WHERE id = $1
dbSelectJob(jb, id) == SelectSeq(jb.rows, LAMBDA j : j.id = id)

\* The PATCH handler after its SELECT returned `existing`: the status_notes
\* it writes when it appends an entry, <<>> when it appends none.
patchEntry(fields, existing) ==
    LET has == existing # <<>>
        e == existing[1]
        newStatus == IF fields.status # Absent THEN fields.status ELSE e.status
        statusChanged == has /\ e.status # newStatus
        existingNoteText == IF has THEN e.notes ELSE ""
        newNoteText == IF fields.notes = Absent THEN "" ELSE fields.notes
        notesChanged == newNoteText # "" /\ newNoteText # existingNoteText
    IN  IF statusChanged
        THEN <<Entry(newStatus,
                     IF newNoteText # "" THEN newNoteText ELSE existingNoteText)>>
        ELSE IF notesChanged /\ has THEN <<Entry(e.status, newNoteText)>>
        ELSE <<>>

\* The rest of the handler: 400 when nothing is to be set, else the UPDATE
\* of the row as it is by then, and a 200 with the row returned.
patchJob(jb, id, fields, existing) ==
    LET entry == patchEntry(fields, existing)
        set(j) == [j EXCEPT
                     !.status = IF fields.status # Absent THEN fields.status ELSE @,
                     !.notes = IF fields.notes # Absent THEN fields.notes ELSE @,
                     !.status_notes = IF entry # <<>>
                                      THEN existing[1].status_notes \o entry ELSE @]
    IN  IF fields.status = Absent /\ fields.notes = Absent
        THEN [resp |-> Response(400, NoRow, Throw("no updatable fields provided"), <<>>),
              jb |-> jb]
        ELSE [resp |-> Response(200, NoRow, Throw(""), <<"update_job">>),
              jb |-> [jb EXCEPT !.rows = [i \in DOMAIN @ |->
                                            IF @[i].id = id THEN set(@[i]) ELSE @[i]]]]

\* The job handlers are run with no storage configured, in production and
\* out of it, against a jobs table with or without a contacts column.
InitJobs ==
    /\ env \in {[e EXCEPT !.NODE_ENV = n] :
                  e \in {d \in ServerDeployments :
                            ~hasR2(d) /\ ~d.BLOB_READ_WRITE_TOKEN /\ ~enforce(d)
                            /\ ~d.R2_PUBLIC_URL_PREFIX},
                  n \in NodeEnvs}
    /\ sdk = "full"
    /\ InitStores
    /\ call = NoCall
    /\ dbMock \in BOOLEAN
    /\ pgPool = NoPool
    /\ patches = NoPatches
    /\ attachments = <<>>
    /\ nextAttachId = 1
    /\ jobs \in {[rows |-> <<>>, next |-> 1, contactsCol |-> c] : c \in BOOLEAN}
    /\ client = NoClient
    /\ submit = NoSubmit
    /\ http = NoHttp

\* POST /api/jobs
JobsCreate ==
    /\ jobs.next <= MaxJobs
    /\ \E body \in CreateBodies, fail \in {f \in BOOLEAN : f => ~dbMock} :
          \E r \in {createJob(jobs, body, fail)} :
              /\ jobs' = r.jb
              /\ http' = [route |-> "POST /api/jobs", req |-> NoBody, resp |-> r.resp]
    /\ UNCHANGED <<gatewayVars, dbMock, pgPool, patches, attachments, nextAttachId,
                   submit, client>>

\* PATCH /api/jobs/[id], up to the await of its SELECT.
PatchSelect(p) ==
    /\ patches[p].pc = "idle"
    /\ \E id \in 1..MaxJobs, fields \in PatchFields :
          patches' = [patches EXCEPT
                        ![p] = [pc |-> "selected", id |-> id, fields |-> fields,
                                existing |-> dbSelectJob(jobs, id)]]
    /\ UNCHANGED <<gatewayVars, dbMock, pgPool, attachments, nextAttachId, jobs,
                   submit, client, http>>

\* PATCH /api/jobs/[id], from the SELECT's result to the response.
PatchUpdate(p) ==
    /\ patches[p].pc = "selected"
    /\ \E r \in {patchJob(jobs, patches[p].id, patches[p].fields, patches[p].existing)} :
          /\ jobs' = r.jb
          /\ http' = [route |-> "PATCH /api/jobs/[id]", req |-> IdReq(patches[p].id),
                      resp |-> r.resp]
    /\ patches' = [patches EXCEPT ![p] = [pc |-> "done"]]
    /\ UNCHANGED <<gatewayVars, dbMock, pgPool, attachments, nextAttachId, submit,
                   client>>

NextJobs ==
    \/ JobsCreate
    \/ \E p \in Patchers : PatchSelect(p)
    \/ \E p \in Patchers : PatchUpdate(p)

SpecJobs == InitJobs /\ [][NextJobs]_vars

\* C29: every request is answered by exactly one call that writes the
\* response: no handler calls res.json or res.end twice, and none returns
\* without having called it.
C29_OneResponsePerRequest ==
    http.route # "" => http.resp.writes = 1


\* s is an initial part of t.
IsPrefix(s, t) == Len(s) <= Len(t) /\ SubSeq(t, 1, Len(s)) = s

\* C30: under PATCH /api/jobs/[id] the status history only grows: the
\* status_notes a job had before an UPDATE is an initial part of the one it
\* has after it.
C30_UpdateStep ==
    \A p \in Patchers :
        (patches[p].pc = "selected" /\ patches'[p].pc = "done")
        => \A i \in DOMAIN jobs.rows :
              IsPrefix(jobs.rows[i].status_notes, jobs'.rows[i].status_notes)
C30_HistoryAppendOnly == [][C30_UpdateStep]_vars

\* C30 for one PATCH at a time: when no other PATCH is between its SELECT
\* and its UPDATE, the UPDATE appends one entry with the new status when
\* the status changes, one with the current status when the status stays
\* and the request carries notes that are not empty and differ from the
\* stored ones, and leaves the history alone otherwise.
C30_SerialStep ==
    \A p \in Patchers :
        (/\ patches[p].pc = "selected" /\ patches'[p].pc = "done"
         /\ patches[p].existing = dbSelectJob(jobs, patches[p].id))
        => \A i \in DOMAIN jobs.rows :
              LET old == jobs.rows[i]
                  new == jobs'.rows[i]
                  f == patches[p].fields
                  status == f.status # Absent /\ f.status # old.status
                  notes == f.notes \notin {Absent, "", old.notes}
              IN  new.status_notes =
                     IF old.id # patches[p].id \/ http'.resp.status # 200
                     THEN old.status_notes
                     ELSE IF status
                     THEN Append(old.status_notes,
                                 Entry(f.status, IF f.notes \in {Absent, ""}
                                                 THEN old.notes ELSE f.notes))
                     ELSE IF notes
                     THEN Append(old.status_notes, Entry(old.status, f.notes))
                     ELSE old.status_notes
C30_SerialAppends == [][C30_SerialStep]_vars

====
